---- MODULE Spec2Model ----
(***************************************************************************)
(* ioBroker.puppeteer: the adapter of src/main.ts as a state machine.      *)
(* One process per event-handler invocation (onReady, onUnload,            *)
(* onStateChange); every `await` of the source is a step boundary.         *)
(***************************************************************************)
EXTENDS Integers, Sequences, FiniteSets, TLC

\* ------------------------------------------------------------------ bounds
\* concurrent onStateChange invocations
MaxTriggers == 2
\* onUnload invocations
MaxUnloads == 2
\* the numbers a clip key takes: 0, 7, ..., 7 * MaxClip
MaxClip == 1
\* the numbers renderTime takes: 0, 500, ..., 500 * MaxRender
MaxRender == 1
MaxWrites == 2

Triggers == 1..MaxTriggers
Unloads == 1..MaxUnloads

\* ------------------------------------------------------------------ values
\* A JavaScript value as the state store hands it out: t is its typeof
\* ("nostate": getStateAsync resolved null, the state does not exist).
Val(t, n, s) == [t |-> t, n |-> n, s |-> s]
NoState == Val("nostate", 0, "")
Unread == Val("unread", 0, "")
Num(n) == Val("number", n, "")
Str(s) == Val("string", 0, s)
Bool(b) == Val("boolean", IF b THEN 1 ELSE 0, "")

\* JavaScript truthiness of state.val
Truthy(v) ==
    \/ v.t = "number" /\ v.n # 0
    \/ v.t = "string" /\ v.s # ""
    \/ v.t = "boolean" /\ v.n = 1

IsNumber(v) == v.t = "number"
IsString(v) == v.t = "string"

\* ------------------------------------------------------------------ configuration
ClipKeys == <<"clipLeft", "clipTop", "clipHeight", "clipWidth">>
ClipKeySet == {ClipKeys[i] : i \in 1..4}
Keys == {"filename", "fullPage", "waitForSelector", "renderTime"} \cup ClipKeySet

FilenameVals == {NoState, Str(""), Str("/tmp/out.png")}
FullPageVals == {NoState, Bool(FALSE), Bool(TRUE), Num(1)}
ClipVals == {NoState, Str("7")} \cup {Num(7 * i) : i \in 0..MaxClip}
SelectorVals == {NoState, Str(""), Str("#sel"), Num(5)}
RenderVals == {NoState, Str("500")} \cup {Num(500 * i) : i \in 0..MaxRender}

MkCfg(f, fp, cl, ct, ch, cw, sel, rt) ==
    [k \in Keys |->
        CASE k = "filename" -> f
          [] k = "fullPage" -> fp
          [] k = "clipLeft" -> cl
          [] k = "clipTop" -> ct
          [] k = "clipHeight" -> ch
          [] k = "clipWidth" -> cw
          [] k = "waitForSelector" -> sel
          [] OTHER -> rt]

\* the configurations the lifecycle specification starts from: a full-page
\* capture after a selector wait, and a clip-less capture after a fixed delay
CfgSamples ==
    { MkCfg(Str("/tmp/out.png"), Bool(TRUE), Num(0), Num(7), Num(7), Num(7),
            Str("#sel"), Num(500)),
      MkCfg(Str("/tmp/out.png"), NoState, NoState, Num(7), Num(7), Num(0),
            NoState, Num(500)) }

\* every capture configuration with a sampled wait configuration, and every
\* wait configuration with a fixed capture configuration
CfgCapture ==
    { MkCfg(f, fp, cl, ct, ch, cw, NoState, NoState) :
        f \in FilenameVals, fp \in FullPageVals,
        cl \in ClipVals, ct \in ClipVals, ch \in ClipVals, cw \in ClipVals }
CfgWait ==
    { MkCfg(Str("/tmp/out.png"), fp, NoState, NoState, NoState, NoState, sel, rt) :
        fp \in {NoState, Bool(TRUE)}, sel \in SelectorVals, rt \in RenderVals }

\* ------------------------------------------------------------------ trigger events
Urls == {"u1"}
\* the `state` argument of onStateChange: null, or {val, ack}
NullState == [null |-> TRUE, val |-> "", ack |-> FALSE]
StateArgs ==
    {NullState} \cup
    { [null |-> FALSE, val |-> v, ack |-> a] : v \in Urls \cup {""}, a \in BOOLEAN }

\* ------------------------------------------------------------------ configuration writes
\* setState on a configuration key by a user or script: the key and the
\* value written
CfgWrites ==
    { <<"filename", Str("/tmp/b.png")>>, <<"clipLeft", Num(7)>>,
      <<"waitForSelector", Str("")>>, <<"renderTime", Num(0)>> }

VARIABLES
    cfg,        \* the state store: configuration key -> value
    browser,    \* this.browser: "undefined" or "handle"
    session,    \* the launched browser: launches, close() calls, closed
    ready,      \* onReady: its position and whether 'url' is subscribed
    unl,        \* onUnload invocations
    req         \* onStateChange invocations

vars == <<cfg, browser, session, ready, unl, req>>

NoClip == [x |-> 0, y |-> 0, width |-> 0, height |-> 0]
NoOptions == [path |-> "", fullPage |-> "unset", hasClip |-> FALSE, clip |-> NoClip]

InitReq ==
    [pc |-> "idle", st |-> NullState,
     opts |-> NoOptions, clipN |-> 0, clipOpts |-> NoClip,
     rd |-> [k \in Keys |-> Unread],
     opened |-> 0, closeCalls |-> 0, navs |-> 0, navOk |-> FALSE,
     waitKind |-> "unresolved", waitArg |-> Unread, waitOk |-> FALSE,
     caps |-> 0, capOpts |-> NoOptions, capOk |-> FALSE,
     acks |-> 0, ackVal |-> "", ackFlag |-> FALSE,
     errs |-> 0, cfgErr |-> FALSE, failedAt |-> "",
     result |-> "", seen |-> {}]

InitUnl == [pc |-> "idle", cb |-> 0, closeCalled |-> FALSE, closeFailed |-> FALSE]

InitCommon ==
    /\ unl = [u \in Unloads |-> InitUnl]
    /\ req = [h \in Triggers |-> InitReq]

Init ==
    /\ cfg \in CfgSamples
    /\ browser = "undefined"
    /\ session = [launches |-> 0, closeCalls |-> 0, closed |-> FALSE]
    /\ ready = [pc |-> "init", subscribed |-> FALSE]
    /\ InitCommon

\* ------------------------------------------------------------------ onReady
\* lines 18-19: subscribeStates('url'), then puppeteer.launch is pending
ReadyStart ==
    /\ ready.pc = "init"
    /\ ready' = [pc |-> "launching", subscribed |-> TRUE]
    /\ UNCHANGED <<cfg, browser, session, unl, req>>

\* line 19: the launch resolves and this.browser is assigned
ReadyLaunched ==
    /\ ready.pc = "launching"
    /\ browser' = "handle"
    /\ session' = [session EXCEPT !.launches = @ + 1]
    /\ ready' = [ready EXCEPT !.pc = "done"]
    /\ UNCHANGED <<cfg, unl, req>>

\* line 19: the launch rejects; this.browser stays undefined
ReadyLaunchFailed ==
    /\ ready.pc = "launching"
    /\ ready' = [ready EXCEPT !.pc = "failed"]
    /\ UNCHANGED <<cfg, browser, session, unl, req>>

\* ------------------------------------------------------------------ onUnload
\* invocations are numbered in their order of arrival
UnloadMayStart(u) ==
    /\ unl[u].pc = "idle"
    /\ IF u = 1 THEN TRUE ELSE unl[u - 1].pc # "idle"

\* lines 27-33: with a browser, close() is called and awaited; without one
\* the callback runs at once
UnloadStart(u) ==
    /\ UnloadMayStart(u)
    /\ IF browser # "undefined"
         THEN /\ session' = [session EXCEPT !.closeCalls = @ + 1]
              /\ unl' = [unl EXCEPT ![u].pc = "closing", ![u].closeCalled = TRUE]
         ELSE /\ unl' = [unl EXCEPT ![u].pc = "done", ![u].cb = @ + 1]
              /\ UNCHANGED session
    /\ UNCHANGED <<cfg, browser, ready, req>>

\* lines 30-33: close() resolved: the handle is discarded, then the callback
UnloadCloseOk(u) ==
    /\ unl[u].pc = "closing"
    /\ session' = [session EXCEPT !.closed = TRUE]
    /\ browser' = "undefined"
    /\ unl' = [unl EXCEPT ![u].pc = "done", ![u].cb = @ + 1]
    /\ UNCHANGED <<cfg, ready, req>>

\* onUnload without its catch block: a rejected close() ends the teardown
\* with no callback
UnloadCloseFailedNoCatch(u) ==
    /\ unl[u].pc = "closing"
    /\ unl' = [unl EXCEPT ![u].pc = "done", ![u].closeFailed = TRUE]
    /\ UNCHANGED <<cfg, browser, session, ready, req>>

\* lines 30, 34-36: close() rejected: line 31 is skipped, the catch block
\* runs the callback
UnloadCloseFailed(u) ==
    /\ unl[u].pc = "closing"
    /\ unl' = [unl EXCEPT ![u].pc = "done", ![u].cb = @ + 1,
                          ![u].closeFailed = TRUE]
    /\ UNCHANGED <<cfg, browser, session, ready, req>>

\* ------------------------------------------------------------------ onStateChange
\* how one invocation ends: a plain return, the catch block of lines 72-74
\* (one log.error), or a rejection that leaves the handler
Returned(r) == [r EXCEPT !.pc = "done", !.result = "returned"]
Caught(r, where) ==
    [r EXCEPT !.pc = "done", !.result = "returned", !.errs = @ + 1,
              !.failedAt = where]
Rejected(r, where) ==
    [r EXCEPT !.pc = "done", !.result = "rejected", !.failedAt = where]

\* line 66: page.screenshot(options) is called with the gathered options
InvokeScreenshot(r) ==
    [r EXCEPT !.pc = "shot", !.caps = @ + 1, !.capOpts = r.opts]

\* the test of line 49 without its !state.ack
ActionableIgnoresAck(st) == ~st.null /\ st.val # ""

\* line 49: state && state.val && !state.ack
Actionable(st) == ~st.null /\ st.val # "" /\ ~st.ack

StateChangeMayStart(h) ==
    /\ req[h].pc = "idle"
    /\ IF h = 1 THEN TRUE ELSE req[h - 1].pc # "idle"

\* onStateChange without the guard of lines 43-46
StateChangeNoGuard(h) ==
    /\ StateChangeMayStart(h)
    /\ ready.subscribed
    /\ \E st \in StateArgs :
        LET r == [req[h] EXCEPT !.st = st]
        IN  req' = [req EXCEPT ![h] =
                IF Actionable(st)
                THEN [r EXCEPT !.pc = "rdFilename"]
                ELSE Returned(r)]
    /\ UNCHANGED <<cfg, browser, session, ready, unl>>

\* lines 43-50: the guard on this.browser, the test of the notification,
\* and the call of gatherScreenshotOptions up to its first await
StateChange(h) ==
    /\ StateChangeMayStart(h)
    /\ ready.subscribed
    /\ \E st \in StateArgs :
        LET r == [req[h] EXCEPT !.st = st]
        IN  req' = [req EXCEPT ![h] =
                IF browser = "undefined" THEN Returned(r)
                ELSE IF Actionable(st)
                     THEN [r EXCEPT !.pc = "rdFilename"]
                     ELSE Returned(r)]
    /\ UNCHANGED <<cfg, browser, session, ready, unl>>

\* lines 85-88 and 91 up to its await; line 50 is outside the try block, so a
\* rejected read leaves onStateChange
ReadFilename(h) ==
    /\ req[h].pc = "rdFilename"
    /\ \/ LET v == cfg["filename"]
              r == [req[h] EXCEPT !.rd["filename"] = v, !.pc = "rdFullPage"]
          IN  req' = [req EXCEPT ![h] =
                  IF v # NoState /\ Truthy(v)
                  THEN [r EXCEPT !.opts.path = v.s]
                  ELSE r]
       \/ req' = [req EXCEPT ![h] = Rejected(req[h], "config")]
    /\ UNCHANGED <<cfg, browser, session, ready, unl>>

\* gatherScreenshotOptions without the test of line 96: the clip keys are
\* read whatever fullPage is
ReadFullPageAlwaysClip(h) ==
    /\ req[h].pc = "rdFullPage"
    /\ \/ LET v == cfg["fullPage"]
              r == [req[h] EXCEPT !.rd["fullPage"] = v, !.pc = "rdClip"]
          IN  req' = [req EXCEPT ![h] =
                  IF v # NoState /\ Truthy(v)
                  THEN [r EXCEPT !.opts.fullPage = "true"]
                  ELSE [r EXCEPT !.opts.fullPage =
                                     IF v # NoState THEN "false" ELSE "unset"]]
       \/ req' = [req EXCEPT ![h] = Rejected(req[h], "config")]
    /\ UNCHANGED <<cfg, browser, session, ready, unl>>

\* lines 91-104: fullPage is coerced to a boolean when the state exists;
\* the clip keys are read only when options.fullPage is not true
ReadFullPage(h) ==
    /\ req[h].pc = "rdFullPage"
    /\ \/ LET v == cfg["fullPage"]
              r == [req[h] EXCEPT !.rd["fullPage"] = v]
          IN  req' = [req EXCEPT ![h] =
                  IF v # NoState /\ Truthy(v)
                  THEN [r EXCEPT !.opts.fullPage = "true", !.pc = "gathered"]
                  ELSE [r EXCEPT !.opts.fullPage =
                                     IF v # NoState THEN "false" ELSE "unset",
                                 !.pc = "rdClip"]]
       \/ req' = [req EXCEPT ![h] = Rejected(req[h], "config")]
    /\ UNCHANGED <<cfg, browser, session, ready, unl>>

\* clipAttributes with height and width exchanged
SetClipAttributeSwapped(c, i, n) ==
    CASE i = 1 -> [c EXCEPT !.x = n]
      [] i = 2 -> [c EXCEPT !.y = n]
      [] i = 3 -> [c EXCEPT !.width = n]
      [] OTHER -> [c EXCEPT !.height = n]

\* line 125: options[attributeName] = val, for the i-th entry of clipAttributes
SetClipAttribute(c, i, n) ==
    CASE i = 1 -> [c EXCEPT !.x = n]
      [] i = 2 -> [c EXCEPT !.y = n]
      [] i = 3 -> [c EXCEPT !.height = n]
      [] OTHER -> [c EXCEPT !.width = n]

\* lines 122-132 and 97-101: one iteration of the loop over clipAttributes;
\* a key that is no number ends the loop with no clip, the fourth number
\* attaches the clip
ReadClip(h) ==
    /\ req[h].pc = "rdClip"
    /\ \/ LET i == req[h].clipN + 1
              k == ClipKeys[i]
              v == cfg[k]
              r == [req[h] EXCEPT !.rd[k] = v]
              c == SetClipAttribute(r.clipOpts, i, v.n)
          IN  req' = [req EXCEPT ![h] =
                  IF v # NoState /\ IsNumber(v)
                  THEN IF i = 4
                       THEN [r EXCEPT !.clipN = i, !.clipOpts = c,
                                      !.opts.hasClip = TRUE, !.opts.clip = c,
                                      !.pc = "gathered"]
                       ELSE [r EXCEPT !.clipN = i, !.clipOpts = c]
                  ELSE [r EXCEPT !.pc = "gathered"]]
       \/ req' = [req EXCEPT ![h] = Rejected(req[h], "config")]
    /\ UNCHANGED <<cfg, browser, session, ready, unl>>

\* onStateChange without the test of lines 52-55
CheckPathNoTest(h) ==
    /\ req[h].pc = "gathered"
    /\ req' = [req EXCEPT ![h] =
          IF browser = "undefined"
          THEN Caught(req[h], "newPage")
          ELSE [req[h] EXCEPT !.pc = "newPage"]]
    /\ UNCHANGED <<cfg, browser, session, ready, unl>>

\* lines 52-61: without a path one log.error and return; otherwise
\* this.browser.newPage() is called on the handle as it is now
CheckPath(h) ==
    /\ req[h].pc = "gathered"
    /\ req' = [req EXCEPT ![h] =
          IF req[h].opts.path = ""
          THEN [Caught(req[h], "config") EXCEPT !.cfgErr = TRUE]
          ELSE IF browser = "undefined"
               THEN Caught(req[h], "newPage")
               ELSE [req[h] EXCEPT !.pc = "newPage"]]
    /\ UNCHANGED <<cfg, browser, session, ready, unl>>

\* lines 61-62: the page is opened and page.goto(state.val) is called
NewPage(h) ==
    /\ req[h].pc = "newPage"
    /\ \/ req' = [req EXCEPT ![h].opened = @ + 1, ![h].navs = @ + 1,
                             ![h].pc = "goto"]
       \/ req' = [req EXCEPT ![h] = Caught(req[h], "newPage")]
    /\ UNCHANGED <<cfg, browser, session, ready, unl>>

\* a navigation on one page shared by all handlings: its failure ends every
\* handling that is using the page
GotoSharedPage(h) ==
    /\ req[h].pc = "goto"
    /\ \/ req' = [req EXCEPT ![h].navOk = TRUE, ![h].pc = "rdSelector"]
       \/ req' = [g \in Triggers |->
                     IF g = h \/ (req[g].opened > 0 /\ req[g].pc # "done")
                     THEN Caught(req[g], "goto")
                     ELSE req[g]]
    /\ UNCHANGED <<cfg, browser, session, ready, unl>>

\* a navigation whose failure is swallowed: the wait step follows
GotoFailureIgnored(h) ==
    /\ req[h].pc = "goto"
    /\ \/ req' = [req EXCEPT ![h].navOk = TRUE, ![h].pc = "rdSelector"]
       \/ req' = [req EXCEPT ![h].pc = "rdSelector"]
    /\ UNCHANGED <<cfg, browser, session, ready, unl>>

\* lines 62-64 and 142: navigation done, waitForConditions reads the selector
Goto(h) ==
    /\ req[h].pc = "goto"
    /\ \/ req' = [req EXCEPT ![h].navOk = TRUE, ![h].pc = "rdSelector"]
       \/ req' = [req EXCEPT ![h] = Caught(req[h], "goto")]
    /\ UNCHANGED <<cfg, browser, session, ready, unl>>

\* waitForConditions without the early return of lines 143-147: renderTime
\* is read whatever the selector is
ReadSelectorNoPrecedence(h) ==
    /\ req[h].pc = "rdSelector"
    /\ \/ req' = [req EXCEPT ![h].rd["waitForSelector"] = cfg["waitForSelector"],
                             ![h].pc = "rdRender"]
       \/ req' = [req EXCEPT ![h] = Caught(req[h], "wait")]
    /\ UNCHANGED <<cfg, browser, session, ready, unl>>

\* lines 142-149: a non-empty string selector is waited for; otherwise
\* renderTime is read
ReadSelector(h) ==
    /\ req[h].pc = "rdSelector"
    /\ \/ LET v == cfg["waitForSelector"]
              r == [req[h] EXCEPT !.rd["waitForSelector"] = v]
          IN  req' = [req EXCEPT ![h] =
                  IF v # NoState /\ Truthy(v) /\ IsString(v)
                  THEN [r EXCEPT !.waitKind = "selector", !.waitArg = v,
                                 !.pc = "waitSelector"]
                  ELSE [r EXCEPT !.pc = "rdRender"]]
       \/ req' = [req EXCEPT ![h] = Caught(req[h], "wait")]
    /\ UNCHANGED <<cfg, browser, session, ready, unl>>

\* lines 145-146 and 66: the selector appeared, the screenshot is called
WaitSelector(h) ==
    /\ req[h].pc = "waitSelector"
    /\ \/ req' = [req EXCEPT ![h] =
                     InvokeScreenshot([req[h] EXCEPT !.waitOk = TRUE])]
       \/ req' = [req EXCEPT ![h] = Caught(req[h], "wait")]
    /\ UNCHANGED <<cfg, browser, session, ready, unl>>

\* waitForConditions testing only typeof renderTimeMs === 'number'
ReadRenderTypeofOnly(h) ==
    /\ req[h].pc = "rdRender"
    /\ \/ LET v == cfg["renderTime"]
              r == [req[h] EXCEPT !.rd["renderTime"] = v]
          IN  req' = [req EXCEPT ![h] =
                  IF v # NoState /\ IsNumber(v)
                  THEN [r EXCEPT !.waitKind = "timeout", !.waitArg = v,
                                 !.pc = "waitTimeout"]
                  ELSE InvokeScreenshot([r EXCEPT !.waitKind = "none",
                                                  !.waitOk = TRUE])]
       \/ req' = [req EXCEPT ![h] = Caught(req[h], "wait")]
    /\ UNCHANGED <<cfg, browser, session, ready, unl>>

\* lines 149-155 and 66: a truthy number is waited for with waitForTimeout;
\* anything else ends the wait step and the screenshot is called
ReadRender(h) ==
    /\ req[h].pc = "rdRender"
    /\ \/ LET v == cfg["renderTime"]
              r == [req[h] EXCEPT !.rd["renderTime"] = v]
          IN  req' = [req EXCEPT ![h] =
                  IF v # NoState /\ Truthy(v) /\ IsNumber(v)
                  THEN [r EXCEPT !.waitKind = "timeout", !.waitArg = v,
                                 !.pc = "waitTimeout"]
                  ELSE InvokeScreenshot([r EXCEPT !.waitKind = "none",
                                                  !.waitOk = TRUE])]
       \/ req' = [req EXCEPT ![h] = Caught(req[h], "wait")]
    /\ UNCHANGED <<cfg, browser, session, ready, unl>>

\* lines 152-153 and 66: the delay has passed, the screenshot is called
WaitTimeout(h) ==
    /\ req[h].pc = "waitTimeout"
    /\ \/ req' = [req EXCEPT ![h] =
                     InvokeScreenshot([req[h] EXCEPT !.waitOk = TRUE])]
       \/ req' = [req EXCEPT ![h] = Caught(req[h], "wait")]
    /\ UNCHANGED <<cfg, browser, session, ready, unl>>

\* a screenshot whose failure is swallowed: the acknowledgement follows
ScreenshotFailureIgnored(h) ==
    /\ req[h].pc = "shot"
    /\ \/ req' = [req EXCEPT ![h].capOk = TRUE, ![h].pc = "setState"]
       \/ req' = [req EXCEPT ![h].pc = "setState"]
    /\ UNCHANGED <<cfg, browser, session, ready, unl>>

\* lines 66-70: the screenshot is saved, setStateAsync(id, state.val, true)
\* is called
Screenshot(h) ==
    /\ req[h].pc = "shot"
    /\ \/ req' = [req EXCEPT ![h].capOk = TRUE, ![h].pc = "setState"]
       \/ req' = [req EXCEPT ![h] = Caught(req[h], "screenshot")]
    /\ UNCHANGED <<cfg, browser, session, ready, unl>>

\* an acknowledgement written without the ack flag of line 70
SetStateUnacked(h) ==
    /\ req[h].pc = "setState"
    /\ \/ req' = [req EXCEPT ![h].acks = @ + 1, ![h].ackVal = req[h].st.val,
                             ![h].ackFlag = FALSE,
                             ![h].closeCalls = @ + 1, ![h].pc = "close"]
       \/ req' = [req EXCEPT ![h] = Caught(req[h], "setState")]
    /\ UNCHANGED <<cfg, browser, session, ready, unl>>

\* lines 70-71: the acknowledgement is written, page.close() is called
SetState(h) ==
    /\ req[h].pc = "setState"
    /\ \/ req' = [req EXCEPT ![h].acks = @ + 1, ![h].ackVal = req[h].st.val,
                             ![h].ackFlag = TRUE,
                             ![h].closeCalls = @ + 1, ![h].pc = "close"]
       \/ req' = [req EXCEPT ![h] = Caught(req[h], "setState")]
    /\ UNCHANGED <<cfg, browser, session, ready, unl>>

\* lines 18 and 70, then 43-50: the write of line 70 changes the subscribed
\* state, so onStateChange is invoked with the value and flag that were
\* written
AckNotification(h) ==
    /\ StateChangeMayStart(h)
    /\ ready.subscribed
    /\ \E g \in Triggers :
        /\ req[g].acks > 0
        /\ LET st == [null |-> FALSE, val |-> req[g].ackVal,
                      ack |-> req[g].ackFlag]
               r == [req[h] EXCEPT !.st = st]
           IN  req' = [req EXCEPT ![h] =
                   IF browser = "undefined" THEN Returned(r)
                   ELSE IF Actionable(st)
                        THEN [r EXCEPT !.pc = "rdFilename"]
                        ELSE Returned(r)]
    /\ UNCHANGED <<cfg, browser, session, ready, unl>>

\* lines 71-75: page.close() settles and the handler returns
PageClose(h) ==
    /\ req[h].pc = "close"
    /\ \/ req' = [req EXCEPT ![h] = Returned(req[h])]
       \/ req' = [req EXCEPT ![h] = Caught(req[h], "close")]
    /\ UNCHANGED <<cfg, browser, session, ready, unl>>

\* ------------------------------------------------------------------ the resolver as a function
\* lines 81-133: the options gatherScreenshotOptions returns when every key
\* is read from the one configuration c
gatherScreenshotOptions(c) ==
    LET f == c["filename"]
        fp == c["fullPage"]
        full == IF fp = NoState THEN "unset"
                ELSE IF Truthy(fp) THEN "true" ELSE "false"
        allNum == \A i \in 1..4 :
                      c[ClipKeys[i]] # NoState /\ IsNumber(c[ClipKeys[i]])
        withClip == full # "true" /\ allNum
    IN  [path |-> IF f # NoState /\ Truthy(f) THEN f.s ELSE "",
         fullPage |-> full,
         hasClip |-> withClip,
         clip |-> IF withClip
                  THEN [x |-> c["clipLeft"].n, y |-> c["clipTop"].n,
                        height |-> c["clipHeight"].n,
                        width |-> c["clipWidth"].n]
                  ELSE NoClip]

\* lines 140-155: what waitForConditions waits for when both keys are read
\* from the one configuration c
waitForConditions(c) ==
    LET sel == c["waitForSelector"]
        rt == c["renderTime"]
    IN  IF sel # NoState /\ Truthy(sel) /\ IsString(sel)
        THEN [kind |-> "selector", arg |-> sel]
        ELSE IF rt # NoState /\ Truthy(rt) /\ IsNumber(rt)
             THEN [kind |-> "timeout", arg |-> rt]
             ELSE [kind |-> "none", arg |-> Unread]

\* ------------------------------------------------------------------ a configuration write
InFlight(h) == req[h].pc \notin {"idle", "done"}

\* a configuration key is written while a handling is suspended in one of
\* its awaits; every handling in flight has then lived through both the
\* configuration before and the one after
ConfigWrite(k, v) ==
    /\ cfg[k] # v
    /\ \E h \in Triggers : InFlight(h)
    /\ \A h \in Triggers :
          InFlight(h) => Cardinality(req[h].seen \cup {cfg}) <= MaxWrites
    /\ cfg' = [cfg EXCEPT ![k] = v]
    /\ req' = [h \in Triggers |->
                  IF InFlight(h)
                  THEN [req[h] EXCEPT !.seen = @ \cup {cfg, cfg'}]
                  ELSE req[h]]
    /\ UNCHANGED <<browser, session, ready, unl>>

\* ------------------------------------------------------------------ specifications
Handler(h) ==
    \/ StateChange(h)
    \/ ReadFilename(h)
    \/ ReadFullPage(h)
    \/ ReadClip(h)
    \/ CheckPath(h)
    \/ NewPage(h)
    \/ Goto(h)
    \/ ReadSelector(h)
    \/ WaitSelector(h)
    \/ ReadRender(h)
    \/ WaitTimeout(h)
    \/ Screenshot(h)
    \/ SetState(h)
    \/ PageClose(h)

Unload(u) ==
    \/ UnloadStart(u)
    \/ UnloadCloseOk(u)
    \/ UnloadCloseFailed(u)

Next ==
    \/ ReadyStart
    \/ ReadyLaunched
    \/ ReadyLaunchFailed
    \/ \E u \in Unloads : Unload(u)
    \/ \E h \in Triggers : Handler(h)
    \/ \E h \in Triggers : AckNotification(h)

Spec == Init /\ [][Next]_vars

\* one trigger on a ready adapter while configuration keys are written
InitWrite ==
    /\ cfg \in CfgSamples
    /\ browser = "handle"
    /\ session = [launches |-> 1, closeCalls |-> 0, closed |-> FALSE]
    /\ ready = [pc |-> "done", subscribed |-> TRUE]
    /\ InitCommon

NextWrite ==
    \/ Handler(1)
    \/ \E w \in CfgWrites : ConfigWrite(w[1], w[2])

SpecWrite == InitWrite /\ [][NextWrite]_vars

\* the resolver on every configuration: the adapter is ready, one trigger
InitConfig ==
    /\ cfg \in CfgCapture \cup CfgWait
    /\ browser = "handle"
    /\ session = [launches |-> 1, closeCalls |-> 0, closed |-> FALSE]
    /\ ready = [pc |-> "done", subscribed |-> TRUE]
    /\ InitCommon

NextConfig == Handler(1)

SpecConfig == InitConfig /\ [][NextConfig]_vars

\* the awaited promises settle: every continuation of onReady, onUnload and
\* onStateChange is eventually run; the events themselves need not arrive
NextFair ==
    \/ ReadyStart
    \/ ReadyLaunched
    \/ ReadyLaunchFailed
    \/ \E u \in Unloads : Unload(u)
    \/ Handler(1)

Continue ==
    \/ ReadyLaunched
    \/ ReadyLaunchFailed
    \/ \E u \in Unloads : UnloadCloseOk(u) \/ UnloadCloseFailed(u)
    \/ ReadFilename(1) \/ ReadFullPage(1) \/ ReadClip(1) \/ CheckPath(1)
    \/ NewPage(1) \/ Goto(1) \/ ReadSelector(1) \/ WaitSelector(1)
    \/ ReadRender(1) \/ WaitTimeout(1) \/ Screenshot(1) \/ SetState(1)
    \/ PageClose(1)

FairSpec ==
    /\ Init
    /\ [][NextFair]_vars
    /\ \A u \in Unloads : WF_vars(UnloadCloseOk(u) \/ UnloadCloseFailed(u))
    /\ WF_vars(Continue)

\* ------------------------------------------------------------------ properties
Ended(h) == req[h].pc = "done"
\* a teardown that closed the session has run its callback
TornDown == \E u \in Unloads : unl[u].pc = "done" /\ unl[u].closeCalled

\* C1: every page a trigger handling opened has been closed exactly once
\* when that handling has ended, on the success path and on every failure
\* path.
C1_PageClosedExactlyOnce ==
    \A h \in Triggers : Ended(h) => req[h].closeCalls = req[h].opened

\* C2: the acknowledgement is written at most once, only after navigation,
\* the wait step and the capture of the same request have succeeded, with
\* the trigger's own value and ack = true; a request that failed at opening
\* the page, navigating, waiting or capturing has written none.
C2_AckOnlyAfterSuccess ==
    \A h \in Triggers :
        /\ req[h].acks <= 1
        /\ req[h].acks = 1 =>
              /\ Actionable(req[h].st)
              /\ req[h].opened = 1 /\ req[h].navOk /\ req[h].waitOk
              /\ req[h].capOk /\ req[h].caps = 1
              /\ req[h].ackVal = req[h].st.val /\ req[h].ackFlag
        /\ req[h].failedAt \in {"config", "newPage", "goto", "wait", "screenshot"}
              => req[h].acks = 0
        /\ ~(req[h].navOk /\ req[h].waitOk /\ req[h].capOk) => req[h].acks = 0

C2_Witness ==
    \E h \in Triggers : Ended(h) /\ req[h].acks = 1 /\ req[h].ackVal = "u1"

\* C3: every teardown runs its completion callback exactly once, and does so
\* eventually: never twice, once when it has ended, and a teardown that has
\* begun ends (with no session, with a close that succeeds, with one that
\* fails).
C3_CallbackExactlyOnce ==
    \A u \in Unloads :
        /\ [](unl[u].cb <= 1)
        /\ [](unl[u].pc = "idle" => unl[u].cb = 0)
        /\ (unl[u].pc # "idle") ~> (unl[u].pc = "done" /\ unl[u].cb = 1)

C3_Witness ==
    \E u \in Unloads : unl[u].pc = "done" /\ unl[u].closeFailed /\ unl[u].cb = 1

\* C4: a trigger that arrives after a teardown has closed the session and
\* run its callback opens no page, navigates and captures nothing, writes no
\* acknowledgement and reports no error, whether the close succeeded or
\* failed.
C4_NothingAfterTeardown ==
    \A h \in Triggers :
        []((TornDown /\ req[h].pc = "idle") =>
              [](/\ req[h].opened = 0 /\ req[h].navs = 0 /\ req[h].caps = 0
                 /\ req[h].acks = 0 /\ req[h].errs = 0))

\* C5: a handling that read an absent or empty filename opens no page,
\* navigates and captures nothing and acknowledges nothing; once the options
\* are gathered it ends with the one configuration error reported (a
\* handling that a rejected configuration read has left ends before that
\* check, see C6).
FilenameMissing(h) == req[h].rd["filename"] \in {NoState, Str("")}

C5_MissingFilenameAborts ==
    \A h \in Triggers :
        FilenameMissing(h) =>
            /\ req[h].opts.path = ""
            /\ req[h].opened = 0 /\ req[h].navs = 0 /\ req[h].caps = 0
            /\ req[h].acks = 0
            /\ req[h].pc \in {"rdFullPage", "rdClip", "gathered", "done"}
            /\ (Ended(h) /\ req[h].result = "returned") =>
                  req[h].cfgErr /\ req[h].errs = 1

C5_Witness ==
    \E h \in Triggers :
        /\ req[h].rd["filename"] = Str("") /\ Ended(h)
        /\ req[h].cfgErr /\ req[h].opened = 0

\* C6: no failure of a step of a trigger handling leaves the handler: each
\* is caught and reported, and the handler returns normally.
C6_NoFailureEscapes ==
    \A h \in Triggers : req[h].result # "rejected"

\* the options are gathered: gatherScreenshotOptions has returned
Gathered(h) ==
    /\ req[h].rd["fullPage"] # Unread
    /\ req[h].pc # "rdClip"
    /\ req[h].result # "rejected"

AllClipNumeric == \A k \in ClipKeySet : IsNumber(cfg[k])

\* C7: when fullPage is true (or any value line 93 coerces to true) the
\* gathered options have fullPage = true and no clip, whatever the four clip
\* keys hold (they are not even read), and the screenshot is called with
\* exactly these options.
FullPageSet(h) == req[h].rd["fullPage"] # Unread /\ Truthy(req[h].rd["fullPage"])

C7_FullPageNoClip ==
    \A h \in Triggers :
        FullPageSet(h) =>
            /\ req[h].opts.fullPage = "true"
            /\ ~req[h].opts.hasClip /\ req[h].opts.clip = NoClip
            /\ \A k \in ClipKeySet : req[h].rd[k] = Unread
            /\ req[h].caps > 0 =>
                  /\ req[h].capOpts = req[h].opts
                  /\ req[h].capOpts.fullPage = "true" /\ ~req[h].capOpts.hasClip

C7_Witness ==
    \E h \in Triggers :
        /\ req[h].rd["fullPage"] = Bool(TRUE) /\ AllClipNumeric
        /\ req[h].caps = 1 /\ req[h].capOk

\* C8: when the gathered fullPage is not true, the options hold a clip
\* exactly when clipLeft, clipTop, clipWidth and clipHeight are all numbers,
\* and then x, y, width, height are these four values; with one of them
\* missing or no number there is no clip at all, no error is reported for
\* it, and the screenshot is called with the gathered options.
C8_ClipAllOrNothing ==
    \A h \in Triggers :
        (Gathered(h) /\ req[h].opts.fullPage # "true") =>
            /\ req[h].opts.hasClip <=> AllClipNumeric
            /\ req[h].opts.hasClip <=> \A k \in ClipKeySet : IsNumber(req[h].rd[k])
            /\ req[h].opts.hasClip =>
                  req[h].opts.clip = [x |-> cfg["clipLeft"].n, y |-> cfg["clipTop"].n,
                                      width |-> cfg["clipWidth"].n,
                                      height |-> cfg["clipHeight"].n]
            /\ ~req[h].opts.hasClip => req[h].opts.clip = NoClip
            /\ req[h].pc = "gathered" => req[h].errs = 0
            /\ req[h].caps > 0 => req[h].capOpts = req[h].opts

C8_Witness ==
    \E h \in Triggers :
        /\ req[h].caps = 1 /\ req[h].capOpts.fullPage = "false"
        /\ req[h].capOpts.hasClip
        /\ req[h].capOpts.clip = [x |-> 0, y |-> 7, width |-> 0, height |-> 7]

\* C9: whenever the selector read is a non-empty string, the wait step waits
\* for that selector and does no fixed-delay wait: renderTime is not read.
SelectorSet(h) ==
    IsString(req[h].rd["waitForSelector"]) /\ req[h].rd["waitForSelector"].s # ""

C9_SelectorPrecedence ==
    \A h \in Triggers :
        SelectorSet(h) =>
            /\ req[h].waitKind = "selector"
            /\ req[h].waitArg = req[h].rd["waitForSelector"]
            /\ req[h].rd["renderTime"] = Unread
            /\ req[h].pc # "waitTimeout"

C9_Witness ==
    \E h \in Triggers :
        /\ SelectorSet(h) /\ IsNumber(cfg["renderTime"]) /\ cfg["renderTime"].n # 0
        /\ req[h].waitKind = "selector" /\ req[h].waitOk /\ req[h].caps = 1

\* C10: with the selector absent or empty and renderTime a number, the wait
\* is a fixed delay of renderTime, for every number; with neither set there
\* is no wait and the screenshot is called at once.
SelectorUnset(h) == req[h].rd["waitForSelector"] \in {NoState, Str("")}

NoWait(h) == req[h].waitKind = "none" /\ req[h].waitOk /\ req[h].caps = 1

C10_FixedDelayEveryNumber ==
    \A h \in Triggers :
        /\ (SelectorUnset(h) /\ IsNumber(req[h].rd["renderTime"])) =>
              req[h].waitKind = "timeout" /\ req[h].waitArg = req[h].rd["renderTime"]
        /\ (SelectorUnset(h) /\ req[h].rd["renderTime"] = NoState) => NoWait(h)

\* C10 as amended: the fixed delay is used for every number other than 0; a
\* renderTime of 0 is treated as unset: no wait, the screenshot is called at
\* once.
C10_FixedDelayNonZero ==
    \A h \in Triggers :
        /\ (SelectorUnset(h) /\ IsNumber(req[h].rd["renderTime"])
                /\ req[h].rd["renderTime"].n # 0) =>
              req[h].waitKind = "timeout" /\ req[h].waitArg = req[h].rd["renderTime"]
        /\ (SelectorUnset(h) /\ req[h].rd["renderTime"] = Num(0)) => NoWait(h)
        /\ (SelectorUnset(h) /\ req[h].rd["renderTime"] = NoState) => NoWait(h)

C10_Witness ==
    \E h \in Triggers :
        /\ req[h].rd["waitForSelector"] = Str("")
        /\ req[h].waitKind = "timeout" /\ req[h].waitArg = Num(500)
        /\ req[h].waitOk /\ req[h].caps = 1

\* C11: a notification starts a capture only when it is not null, its value
\* is truthy and its ack flag is false: a handling that has read any
\* configuration key or called newPage was started by such a notification,
\* and a notification that is null, empty or acknowledged ends at once with
\* no configuration read, no page, no capture, no acknowledgement, no error.
NothingDone(h) ==
    /\ \A k \in Keys : req[h].rd[k] = Unread
    /\ req[h].opened = 0 /\ req[h].navs = 0 /\ req[h].caps = 0
    /\ req[h].acks = 0 /\ req[h].errs = 0

C11_OnlyUnackedTruthyStarts ==
    \A h \in Triggers :
        /\ (req[h].pc # "idle"
                /\ (req[h].st.null \/ req[h].st.val = "" \/ req[h].st.ack)) =>
              /\ Ended(h) /\ req[h].result = "returned"
              /\ NothingDone(h)
        /\ req[h].pc \notin {"idle", "done"} =>
              ~req[h].st.null /\ req[h].st.val # "" /\ ~req[h].st.ack

C11_Witness ==
    /\ ready.pc = "done"
    /\ \A u \in Unloads : unl[u].pc = "idle"
    /\ \E h \in Triggers :
          Ended(h) /\ ~req[h].st.null /\ req[h].st.val = "u1" /\ req[h].st.ack

\* C12: shutdown is idempotent. A teardown that begins while no session
\* handle is held attempts no close, and a teardown that begins after an
\* earlier teardown which called close() has completed (its close resolved
\* or rejected) is the same no-op: it calls close() on nothing and only
\* signals completion.
C12_TeardownIdempotent ==
    [][\A u \in Unloads :
          (unl[u].pc = "idle" /\ unl'[u].pc # "idle"
              /\ (browser = "undefined" \/ TornDown)) =>
                /\ ~unl'[u].closeCalled
                /\ unl'[u].pc = "done"
                /\ session'.closeCalls = session.closeCalls]_vars

\* C13: concurrent handlings are independent. Each handling opens at most
\* one page, its own; page.close() is called on a page only by the handling
\* that opened it, after its own acknowledgement; and every step of one
\* handling, its failure included, leaves the page, the progress and the
\* outcome of every other handling unchanged.
C13_ConcurrentIndependent ==
    /\ [](\A h \in Triggers :
            /\ req[h].opened <= 1
            /\ req[h].closeCalls <= req[h].opened
            /\ (req[h].closeCalls > 0 => req[h].acks = 1))
    /\ [][\A h \in Triggers : \A g \in Triggers \ {h} :
            req'[h] # req[h] => req'[g] = req[g]]_vars

\* one handling failed in its navigation and never closed its page; the
\* other captured, acknowledged and called close() on its own page
C13_Witness ==
    \E h \in Triggers : \E g \in Triggers \ {h} :
        /\ req[h].failedAt = "goto" /\ req[h].opened = 1
        /\ req[h].closeCalls = 0
        /\ req[g].capOk /\ req[g].acks = 1 /\ req[g].closeCalls = 1

\* C14: a request goes through open page, navigate, wait, capture,
\* acknowledge in that order: navigation is called only on an opened page,
\* the wait step starts only after navigation succeeded, the capture is
\* invoked only after navigation succeeded and the wait step completed, the
\* acknowledgement is written only after the capture succeeded, and the page
\* is closed only after the acknowledgement.
C14_FixedOrder ==
    \A h \in Triggers :
        /\ req[h].navs > 0 => req[h].opened = 1
        /\ req[h].navOk => req[h].navs = 1
        /\ (req[h].rd["waitForSelector"] # Unread
                \/ req[h].rd["renderTime"] # Unread
                \/ req[h].waitKind # "unresolved") => req[h].navOk
        /\ req[h].waitOk => req[h].waitKind # "unresolved"
        /\ req[h].caps > 0 => (req[h].navOk /\ req[h].waitOk)
        /\ req[h].capOk => req[h].caps = 1
        /\ req[h].acks > 0 => req[h].capOk
        /\ req[h].closeCalls > 0 => req[h].acks = 1
        /\ req[h].pc \in {"shot", "setState", "close"} =>
              (req[h].navOk /\ req[h].waitOk)

C14_Witness ==
    \E h \in Triggers :
        /\ Ended(h) /\ req[h].acks = 1 /\ req[h].closeCalls = 1
        /\ req[h].waitKind = "selector" /\ req[h].failedAt = ""

\* C15: one actionable trigger causes at most one navigation, one capture
\* and one acknowledgement; when every step succeeded there is exactly one
\* capture, made with the resolved path, and exactly one acknowledgement of
\* the trigger's value with ack = true; a handling that has ended, failed
\* or not, takes no further step; and the notification that the
\* acknowledgement write produces starts no capture.
AllSucceeded(h) ==
    /\ Ended(h) /\ req[h].failedAt = ""
    /\ req[h].rd["filename"] # Unread

C15_AtMostOnceNoLoop ==
    /\ [](\A h \in Triggers :
            /\ req[h].navs <= 1 /\ req[h].caps <= 1 /\ req[h].acks <= 1
            /\ AllSucceeded(h) =>
                  /\ req[h].caps = 1
                  /\ req[h].capOpts.path = req[h].rd["filename"].s
                  /\ req[h].acks = 1
                  /\ req[h].ackVal = req[h].st.val /\ req[h].ackFlag)
    /\ [][\A h \in Triggers : Ended(h) => req'[h] = req[h]]_vars
    /\ [][(\E g \in Triggers : AckNotification(g)) =>
            \A h \in Triggers :
                req[h].pc = "idle" => req'[h].pc \in {"idle", "done"}]_vars

\* a handling started by an acknowledgement's notification has ended with
\* nothing done, while the session was available
C15_Witness ==
    /\ ready.pc = "done"
    /\ \A u \in Unloads : unl[u].pc = "idle"
    /\ \E g \in Triggers : \E h \in Triggers \ {g} :
          /\ AllSucceeded(g) /\ req[g].acks = 1
          /\ Ended(h) /\ req[h].st.ack /\ req[h].st.val = req[g].ackVal
          /\ NothingDone(h)

\* C16: the session is launched at most once and does not outlive
\* teardown: in every state where a teardown has signalled completion, the
\* adapter holds no session handle and a session that was launched has been
\* closed.
C16_SessionWithinLifecycle ==
    /\ session.launches <= 1
    /\ (\E u \in Unloads : unl[u].pc = "done") =>
          /\ browser = "undefined"
          /\ session.launches > 0 => session.closed

\* C17: once teardown has begun and its close() is still in progress, a
\* trigger that arrives is treated as arriving with no session: the
\* handling ends at the guard, with no configuration read, no page opened on
\* the closing session and no error reported.
C17_NoTriggerDuringClose ==
    [][\A h \in Triggers :
          (req[h].pc = "idle" /\ req'[h].pc # "idle"
              /\ \E u \in Unloads : unl[u].pc = "closing") =>
                /\ req'[h].pc = "done" /\ req'[h].result = "returned"
                /\ req'[h].errs = 0 /\ req'[h].opened = 0]_vars

\* C18: the capture options and the wait strategy of one request come from
\* a single configuration: when the screenshot is called, some configuration
\* that existed while the request was handled yields, through the resolver,
\* exactly the path, fullPage flag and clip passed to the screenshot and
\* exactly the wait that was applied.
C18_SingleSnapshot ==
    \A h \in Triggers :
        req[h].pc = "shot" =>
            \E c \in req[h].seen \cup {cfg} :
                /\ req[h].capOpts = gatherScreenshotOptions(c)
                /\ [kind |-> req[h].waitKind, arg |-> req[h].waitArg]
                       = waitForConditions(c)

\* C19: a trigger that arrives after 'url' is subscribed and before the
\* launch has finished is dropped: while the launch is pending every
\* handling that has started has already ended by a plain return with no
\* configuration read, no page, no capture, no acknowledgement and no error,
\* and a handling that has ended is never taken up again, whatever happens
\* to the session afterwards.
C19_DroppedBeforeLaunch ==
    /\ [](ready.pc = "launching" =>
            \A h \in Triggers :
                req[h].pc # "idle" =>
                    /\ Ended(h) /\ req[h].result = "returned"
                    /\ NothingDone(h))
    /\ [][\A h \in Triggers :
            (Ended(h) /\ NothingDone(h)) => req'[h] = req[h]]_vars

\* the session is active, no teardown has begun, and an actionable trigger
\* has ended with nothing done: it arrived while the launch was pending
C19_Witness ==
    /\ ready.pc = "done" /\ browser = "handle"
    /\ \A u \in Unloads : unl[u].pc = "idle"
    /\ \E h \in Triggers :
          /\ Ended(h) /\ NothingDone(h)
          /\ ~req[h].st.null /\ req[h].st.val = "u1" /\ ~req[h].st.ack

====
